---------------------------- MODULE Spec2Model ----------------------------
(***************************************************************************)
(* A model of src/src/utils/audioAnalysis.ts (class AudioAnalyzer).        *)
(*                                                                         *)
(* Number representation.  JavaScript numbers are modelled in fixed point: *)
(*   - samples, window coefficients, magnitudes, confidences and all       *)
(*     sub-scores are integers in units of 1/1000 (0.1 is 100, 1 is 1000); *)
(*   - a boosted magnitude (magnitude * harmonicStrength) is the integer   *)
(*     product of two such numbers, so it is in units of 1/1000000;        *)
(*   - frequencies are integers in Hz; every sample rate of the model is   *)
(*     divisible by the transform size, so sampleRate / fftSize is exact;  *)
(*   - a time i / sampleRate is the exact fraction [num |-> i, den |-> sr].*)
(* A division rounds down to the unit; log10 rounds down to a multiple of  *)
(* 0.05.  NaN stands for JavaScript's NaN (0/0, or an undefined operand).  *)
(***************************************************************************)
EXTENDS Integers, Sequences, FiniteSets, TLC

VARIABLES
  fftSize,          \* AudioAnalyzer.fftSize
  hopSize,          \* AudioAnalyzer.hopSize
  sampleRate,       \* AudioAnalyzer.sampleRate
  cachedBefore,     \* this.sampleRate when the last analyzeSpectrum began
  audioBuffer,      \* the caller's AudioBuffer: [sampleRate, channelData]
  spectrogramData,  \* the caller's SpectrogramData
  returned,         \* the last call and the value it returned
  observed,         \* history of the last call, per frame: the sample indices analyzeSpectrum
                    \* read, or the previousFreq extractFundamentalFrequency passed on
  hung,             \* TRUE once a call has entered a loop that never ends
  app,              \* the state of App: audioFile, spectrogramData, fundamentalData,
                    \* multipleNotesData, analysisMode, isAnalyzing
  processor,        \* the state of useAudioProcessor: audioData, isLoading, error
  calls,            \* the processAudioFile calls so far: the file and where the call is
  timers            \* the pending setTimeout callbacks of the analysis effect, with the
                    \* audioData and analysisMode their closures hold

analyzerVars == <<fftSize, hopSize, sampleRate, cachedBefore, audioBuffer, spectrogramData,
                  returned, observed, hung>>
uiVars == <<app, processor, calls, timers>>
vars == <<fftSize, hopSize, sampleRate, cachedBefore, audioBuffer, spectrogramData,
          returned, observed, hung, app, processor, calls, timers>>

---------------------------------------------------------------------------
(* Bounds of the model. *)

MaxLen == 7        \* longest signal, in samples
MaxHop == 3        \* largest hopSize given to the constructor
MaxFrames == 3     \* most frames of a caller-built spectrogram
MaxActive == 2     \* most non-background bins of a caller-built frame
MaxNotesBound == 2 \* largest maxNotes given to extractMultipleNotes
SignificandBits == 11 \* significant bits of a number in the aggregator
MaxNoteFrequency == 128 \* largest of the consecutive frequencies given to frequencyToNote
MaxDrops == 2 \* files dropped on the application

(* The transform sizes whose DFT and Hamming window are exact rationals. *)
FftSizes == {2, 4}
SampleRates == {8000, 44100}
SampleValues == {0, 1000}

NaN == -1

---------------------------------------------------------------------------
(* Generic helpers standing for JavaScript built-ins. *)

Min(a, b) == IF a <= b THEN a ELSE b
Max(a, b) == IF a >= b THEN a ELSE b
Abs(a) == IF a < 0 THEN -a ELSE a

RECURSIVE SumSeq(_)
SumSeq(s) == IF s = <<>> THEN 0 ELSE Head(s) + SumSeq(Tail(s))

(* Math.sqrt, rounded down to the unit (46340 is the largest 32-bit root). *)
RECURSIVE SqrtBetween(_, _, _)
SqrtBetween(x, lo, hi) ==
  IF lo >= hi THEN lo
  ELSE LET mid == (lo + hi + 1) \div 2
       IN IF mid * mid <= x THEN SqrtBetween(x, mid, hi) ELSE SqrtBetween(x, lo, mid - 1)
Sqrt(x) == SqrtBetween(x, 0, Min(x, 46340))

(* Array.prototype.findIndex(f => f >= bound): 0-based, -1 when none. *)
RECURSIVE FindIndexFrom(_, _, _)
FindIndexFrom(frequencies, bound, i) ==
  IF i >= Len(frequencies) THEN -1
  ELSE IF frequencies[i + 1] >= bound THEN i
  ELSE FindIndexFrom(frequencies, bound, i + 1)
FindIndex(frequencies, bound) == FindIndexFrom(frequencies, bound, 0)

(* Array.prototype.slice(from, to) on 0-based indices. *)
Slice(s, from, to) ==
  IF Min(to, Len(s)) <= from THEN <<>>
  ELSE [k \in 1..(Min(to, Len(s)) - from) |-> s[from + k]]

---------------------------------------------------------------------------
(* The constructor. *)

(* hopSize || Math.floor(fftSize / 4); hopArg is <<>> when omitted. *)
ConstructorHopSize(size, hopArg) ==
  IF hopArg = <<>> \/ hopArg[1] = 0 THEN size \div 4 ELSE hopArg[1]

---------------------------------------------------------------------------
(* analyzeSpectrum and its helpers. *)

generateFrequencyBins(rate, size) ==
  [k \in 1..(size \div 2) |-> (k - 1) * (rate \div size)]

(* 0.54 - 0.46 cos(2 pi i / (size - 1)): for size 2 the cosine is 1 at     *)
(* i = 0, 1; for size 4 it is 1, -1/2, -1/2, 1.                            *)
generateHammingWindow(size) ==
  IF size = 2 THEN <<80, 80>> ELSE <<80, 770, 770, 80>>

(* channelData[k], k 0-based: undefined (NaN in a product) out of range. *)
ChannelSample(channelData, k) ==
  IF k >= 0 /\ k < Len(channelData) THEN channelData[k + 1] ELSE NaN

WindowedSample(channelData, window, i, j) ==
  IF ChannelSample(channelData, i + j) = NaN THEN NaN
  ELSE (ChannelSample(channelData, i + j) * window[j + 1]) \div 1000

Segment(channelData, window, i, size) ==
  [j \in 1..size |-> WindowedSample(channelData, window, i, j - 1)]

(* fft.realTransform on fft.createComplexArray(): 2 * size numbers,        *)
(* interleaved re, im; the first size/2 bins hold the DFT of the segment   *)
(* (the only ones calculateMagnitude keeps), the rest is left at 0.        *)
realTransform(segment) ==
  IF Len(segment) = 2
  THEN <<segment[1] + segment[2], 0, 0, 0>>
  ELSE <<segment[1] + segment[2] + segment[3] + segment[4], 0,
         segment[1] - segment[3], segment[4] - segment[2], 0, 0, 0, 0>>

(* Mutant: the magnitudes are not cut to the first size / 2 bins. *)
calculateMagnitudeUncut(complexSpectrum, size) ==
  [k \in 1..(Len(complexSpectrum) \div 2) |->
     Sqrt(complexSpectrum[2 * k - 1] * complexSpectrum[2 * k - 1]
          + complexSpectrum[2 * k] * complexSpectrum[2 * k])]


calculateMagnitude(complexSpectrum, size) ==
  Slice([k \in 1..(Len(complexSpectrum) \div 2) |->
           Sqrt(complexSpectrum[2 * k - 1] * complexSpectrum[2 * k - 1]
                + complexSpectrum[2 * k] * complexSpectrum[2 * k])],
        0, size \div 2)

FrameMagnitude(channelData, window, i, size) ==
  IF \E j \in 1..size : Segment(channelData, window, i, size)[j] = NaN
  THEN [k \in 1..(size \div 2) |-> NaN]
  ELSE calculateMagnitude(realTransform(Segment(channelData, window, i, size)), size)

(* Mutants of the loop condition: one frame too few; frames that run past  *)
(* the end of the signal.                                                  *)
FrameFitsStrictly(i, size, length) == i + size < length
FrameStartsInside(i, size, length) == i < length

(* The framing loop's condition. *)
FrameFits(i, size, length) == i + size <= length

(* for (let i = 0; i + fftSize <= length; i += hopSize): the start indices. *)
RECURSIVE FrameStartsFrom(_, _, _, _)
FrameStartsFrom(i, size, hop, length) ==
  IF FrameFits(i, size, length)
  THEN <<i>> \o FrameStartsFrom(i + hop, size, hop, length)
  ELSE <<>>
FrameStarts(size, hop, length) == FrameStartsFrom(0, size, hop, length)

(* times.push(i / this.sampleRate) *)
FrameTime(i, rate) == [num |-> i, den |-> rate]

(* rate is this.sampleRate as the call has just set it. *)
analyzeSpectrum(buffer, size, hop, rate) ==
  LET starts == FrameStarts(size, hop, Len(buffer.channelData))
      window == generateHammingWindow(size)
  IN [frequencies |-> generateFrequencyBins(rate, size),
      times |-> [k \in 1..Len(starts) |-> FrameTime(starts[k], rate)],
      magnitudes |-> [k \in 1..Len(starts) |->
                        FrameMagnitude(buffer.channelData, window, starts[k], size)]]

(* The loop never ends when the start index does not advance. *)
AnalyzeDiverges(buffer, size, hop) ==
  hop = 0 /\ FrameFits(0, size, Len(buffer.channelData))

---------------------------------------------------------------------------
(* Program constants of the pitch estimators, magnitudes in 1/1000. *)

minFreq == 80
maxFreq == 2000
MagnitudeFloor == 100     \* magnitude > 0.1
minMagnitude == 50        \* 0.05
HarmonicTolerance == 20   \* Math.abs(...) < 20
ConfidenceFloor == 100    \* confidence > 0.1

---------------------------------------------------------------------------
(* Helpers shared by both estimators. *)

(* magnitudes[i], i 0-based; undefined (NaN) out of range. *)
At(s, i) == IF i >= 0 /\ i < Len(s) THEN s[i + 1] ELSE NaN

(* The scan keeps the first index whose distance is the least (diff <      *)
(* minDiff replaces, an equal one does not); -1 for no frequencies.        *)
(* Mutant: a bin as near as the closest so far replaces it (diff <= minDiff). *)
findClosestFrequencyIndexOfLastTie(targetFreq, frequencies) ==
  IF Len(frequencies) = 0 THEN -1
  ELSE LET diffs == {Abs(frequencies[k] - targetFreq) : k \in 1..Len(frequencies)}
           minDiff == CHOOSE d \in diffs : \A e \in diffs : d <= e
           ties == {k \in 1..Len(frequencies) : Abs(frequencies[k] - targetFreq) = minDiff}
       IN (CHOOSE k \in ties : \A j \in ties : j <= k) - 1

(* The first index of the least difference: a later bin replaces the       *)
(* closest so far only if diff < minDiff.                                  *)
findClosestFrequencyIndex(targetFreq, frequencies) ==
  IF Len(frequencies) = 0 THEN -1
  ELSE LET diffs == {Abs(frequencies[k] - targetFreq) : k \in 1..Len(frequencies)}
           minDiff == CHOOSE d \in diffs : \A e \in diffs : d <= e
           ties == {k \in 1..Len(frequencies) : Abs(frequencies[k] - targetFreq) = minDiff}
       IN (CHOOSE k \in ties : \A j \in ties : k <= j) - 1

(* One harmonic's contribution: magnitudes[closestIdx] * (1 / harmonic). *)
HarmonicTerm(fundamentalFreq, harmonic, frequencies, magnitudes) ==
  LET closestIdx == findClosestFrequencyIndex(fundamentalFreq * harmonic, frequencies)
  IN IF closestIdx # -1
        /\ Abs(frequencies[closestIdx + 1] - fundamentalFreq * harmonic) < HarmonicTolerance
     THEN At(magnitudes, closestIdx) \div harmonic
     ELSE 0

calculateHarmonicStrength(fundamentalFreq, frequencies, magnitudes) ==
  1000 + HarmonicTerm(fundamentalFreq, 2, frequencies, magnitudes)
       + HarmonicTerm(fundamentalFreq, 3, frequencies, magnitudes)
       + HarmonicTerm(fundamentalFreq, 4, frequencies, magnitudes)
       + HarmonicTerm(fundamentalFreq, 5, frequencies, magnitudes)

(* [...magnitudes].sort((a, b) => b - a): the distinct values from the     *)
(* largest down, each as many times as it occurs.                          *)
RECURSIVE DescendingRuns(_, _)
DescendingRuns(values, s) ==
  IF values = {} THEN <<>>
  ELSE LET v == CHOOSE x \in values : \A y \in values : y <= x
           count == Cardinality({k \in 1..Len(s) : s[k] = v})
       IN [k \in 1..count |-> v] \o DescendingRuns(values \ {v}, s)
SortDescending(s) == DescendingRuns({s[k] : k \in 1..Len(s)}, s)

(* sortedMagnitudes.slice(Math.floor(n * tenths / 10)).reduce(sum) /        *)
(* (n * (10 - tenths) / 10): tenths is 8 (single pitch) or 9 (multi pitch). *)
NoiseLevel(magnitudes, tenths) ==
  LET sortedMagnitudes == SortDescending(magnitudes)
      n == Len(sortedMagnitudes)
  IN IF n = 0 THEN NaN
     ELSE (SumSeq(Slice(sortedMagnitudes, (n * tenths) \div 10, n)) * 10)
            \div (n * (10 - tenths))

(* 10000 * 10^(k/20) for k = 1 .. 20. *)
Log10Table ==
  <<11220, 12589, 14125, 15849, 17783, 19953, 22387, 25119, 28184, 31623,
    35481, 39811, 44668, 50119, 56234, 63096, 70795, 79433, 89125, 100000>>

(* Math.log10(num / den) for num >= den > 0, rounded down to a multiple of *)
(* 0.05 and capped at 1 (both estimators clamp below that).                *)
Log10(num, den) ==
  50 * Cardinality({k \in 1..Len(Log10Table) : num * 10000 >= Log10Table[k] * den})

(* Math.log10(magnitude / (noiseLevel + 1e-10) + 1) *)
Log10SnrPlusOne(magnitude, noiseLevel) ==
  IF noiseLevel = 0
  THEN IF magnitude = 0 THEN 0 ELSE 1000
  ELSE Log10(magnitude + noiseLevel, noiseLevel)

---------------------------------------------------------------------------
(* The single-pitch estimator. *)

energyConfidence(magnitude, magnitudes) ==
  LET totalEnergy == SumSeq([k \in 1..Len(magnitudes) |-> magnitudes[k] * magnitudes[k]])
      signalEnergy == magnitude * magnitude
  IN IF totalEnergy = 0 THEN NaN
     ELSE Min((signalEnergy * 1000) \div totalEnergy, 250) * 4

harmonicConfidence(harmonicStrength) ==
  Min((harmonicStrength - 1000) \div 4, 250) * 4

(* Mutant: the default of the temporal sub-score is scaled like the rest. *)
temporalConfidenceScaled(frequency, previousFreq) ==
  IF previousFreq > 0 /\ frequency > 0
  THEN Min((Min(frequency, previousFreq) * 1000) \div Max(frequency, previousFreq), 250) * 4
  ELSE 250 * 4

temporalConfidence(frequency, previousFreq) ==
  IF previousFreq > 0 /\ frequency > 0
  THEN Min((Min(frequency, previousFreq) * 1000) \div Max(frequency, previousFreq), 250) * 4
  ELSE 250

snrConfidence(magnitude, magnitudes) ==
  Min(Log10SnrPlusOne(magnitude, NoiseLevel(magnitudes, 8)) \div 2, 250) * 4

calculateConfidence(frequency, magnitude, harmonicStrength, magnitudes, previousFreq) ==
  IF energyConfidence(magnitude, magnitudes) = NaN THEN NaN
  ELSE LET totalConfidence ==
             (energyConfidence(magnitude, magnitudes)
              + harmonicConfidence(harmonicStrength)
              + temporalConfidence(frequency, previousFreq)
              + snrConfidence(magnitude, magnitudes)) \div 4
       IN Max(0, Min(1000, totalConfidence))

(* Mutants of the magnitude floor: the floor of the multi-pitch peaks; no  *)
(* floor at all.                                                          *)
IsCandidateAbovePeakFloor(magnitude) == magnitude # NaN /\ magnitude > minMagnitude
IsCandidateAlways(magnitude) == magnitude # NaN

(* if (magnitude > 0.1) *)
IsCandidate(magnitude) == magnitude # NaN /\ magnitude > MagnitudeFloor

Candidate(frequencies, magnitudes, i, previousFreq) ==
  LET freq == frequencies[i + 1]
      magnitude == At(magnitudes, i)
      harmonicStrength == calculateHarmonicStrength(freq, frequencies, magnitudes)
  IN [freq |-> freq,
      strength |-> magnitude * harmonicStrength,
      confidence |-> calculateConfidence(freq, magnitude, harmonicStrength,
                                         magnitudes, previousFreq)]

(* The indices i = from, from + 1, ... < to of a for loop. *)
LoopIndices(from, to) == [k \in 1..(to - from) |-> from + k - 1]

(* Mutant: every bin of the frame is visited, not only the band. *)
CandidatesFromEveryBin(frequencies, magnitudes, startIdx, endIdx, previousFreq) ==
  LET indices == SelectSeq(LoopIndices(0, Len(frequencies)),
                           LAMBDA i : IsCandidate(At(magnitudes, i)))
  IN [k \in 1..Len(indices) |->
        Candidate(frequencies, magnitudes, indices[k], previousFreq)]

(* for (let i = startIdx; i < endIdx; i++) if (magnitude > 0.1) push(...) *)
CandidatesFrom(frequencies, magnitudes, startIdx, endIdx, previousFreq) ==
  LET indices == SelectSeq(LoopIndices(startIdx, endIdx),
                           LAMBDA i : IsCandidate(At(magnitudes, i)))
  IN [k \in 1..Len(indices) |->
        Candidate(frequencies, magnitudes, indices[k], previousFreq)]

(* candidateFrequencies.sort((a, b) => b.strength - a.strength) *)
RECURSIVE InsertByStrength(_, _)
InsertByStrength(c, sorted) ==
  IF sorted = <<>> THEN <<c>>
  ELSE IF Head(sorted).strength >= c.strength
       THEN <<Head(sorted)>> \o InsertByStrength(c, Tail(sorted))
       ELSE <<c>> \o sorted
RECURSIVE SortByStrength(_)
SortByStrength(s) ==
  IF s = <<>> THEN <<>>
  ELSE InsertByStrength(s[Len(s)], SortByStrength(SubSeq(s, 1, Len(s) - 1)))

NoPitch == [frequency |-> 0, confidence |-> 0]

estimateFundamentalFrequencyWithConfidence(frequencies, magnitudes, previousFreq) ==
  IF Len(magnitudes) = 0 THEN NoPitch
  ELSE LET startIdx == FindIndex(frequencies, minFreq)
           endIdx == FindIndex(frequencies, maxFreq)
       IN IF startIdx = -1 \/ endIdx = -1 THEN NoPitch
          ELSE LET candidateFrequencies ==
                     SortByStrength(CandidatesFrom(frequencies, magnitudes,
                                                   startIdx, endIdx, previousFreq))
               IN IF Len(candidateFrequencies) = 0 THEN NoPitch
                  ELSE [frequency |-> candidateFrequencies[1].freq,
                        confidence |-> candidateFrequencies[1].confidence]

(* Mutant: the frequency of the frame before the previous one is passed. *)
PreviousFreqLagging(fundamentalFrequencies, i) ==
  IF i > 1 THEN fundamentalFrequencies[i - 1] ELSE 0

(* i > 0 ? fundamentalFrequencies[i - 1] : 0 *)
PreviousFreq(fundamentalFrequencies, i) ==
  IF i > 0 THEN fundamentalFrequencies[i] ELSE 0

(* The loop of extractFundamentalFrequency from frame i (0-based) on; acc   *)
(* holds the arrays pushed so far and the previousFreq passed per frame.    *)
RECURSIVE FundamentalLoop(_, _, _)
FundamentalLoop(sd, i, acc) ==
  IF i >= Len(sd.magnitudes) THEN acc
  ELSE LET previousFreq == PreviousFreq(acc.frequencies, i)
           result == estimateFundamentalFrequencyWithConfidence(
                       sd.frequencies, sd.magnitudes[i + 1], previousFreq)
       IN FundamentalLoop(sd, i + 1,
            [frequencies |-> Append(acc.frequencies, result.frequency),
             confidences |-> Append(acc.confidences, result.confidence),
             previous |-> Append(acc.previous, previousFreq)])

FundamentalRun(sd) ==
  FundamentalLoop(sd, 0, [frequencies |-> <<>>, confidences |-> <<>>, previous |-> <<>>])

extractFundamentalFrequency(sd) ==
  [times |-> sd.times,
   frequencies |-> FundamentalRun(sd).frequencies,
   confidences |-> FundamentalRun(sd).confidences]

---------------------------------------------------------------------------
(* The multi-pitch estimator. *)

(* magnitudes[i] || 0 *)
OrZero(x) == IF x = NaN THEN 0 ELSE x

(* Mutant: a peak only has to exceed its two direct neighbours. *)
IsPeakOfThreePoints(magnitudes, i, floor) ==
  LET current == At(magnitudes, i)
      prev == At(magnitudes, i - 1)
      next == At(magnitudes, i + 1)
  IN /\ current # NaN /\ prev # NaN /\ next # NaN
     /\ current > prev /\ current > next /\ current > floor

IsPeak(magnitudes, i, floor) ==
  LET current == At(magnitudes, i)
      prev == At(magnitudes, i - 1)
      next == At(magnitudes, i + 1)
  IN /\ current # NaN /\ prev # NaN /\ next # NaN
     /\ current > prev /\ current > next /\ current > floor
     /\ current > OrZero(At(magnitudes, i - 2))
     /\ current > OrZero(At(magnitudes, i + 2))

(* Mutant: the loop visits the whole band, startIdx .. endIdx - 1. *)
findPeaksOverBand(magnitudes, startIdx, endIdx, floor) ==
  LET indices == SelectSeq(LoopIndices(startIdx, endIdx),
                           LAMBDA i : IsPeak(magnitudes, i, floor))
  IN [k \in 1..Len(indices) |->
        [index |-> indices[k], magnitude |-> At(magnitudes, indices[k])]]

(* for (let i = startIdx + 1; i < endIdx - 1; i++) *)
findPeaks(magnitudes, startIdx, endIdx, floor) ==
  LET indices == SelectSeq(LoopIndices(startIdx + 1, endIdx - 1),
                           LAMBDA i : IsPeak(magnitudes, i, floor))
  IN [k \in 1..Len(indices) |->
        [index |-> indices[k], magnitude |-> At(magnitudes, indices[k])]]

(* Math.min(magnitude / (sum + 1e-10) * 10, 0.4) *)
multiEnergyConfidence(magnitude, magnitudes) ==
  IF SumSeq(magnitudes) = 0
  THEN IF magnitude = 0 THEN 0 ELSE 400
  ELSE Min((magnitude * 10000) \div SumSeq(magnitudes), 400)

multiHarmonicConfidence(harmonicStrength) ==
  Min((harmonicStrength - 1000) \div 3, 300)

multiSnrConfidence(magnitude, magnitudes) ==
  Min(Log10SnrPlusOne(magnitude, NoiseLevel(magnitudes, 9)) \div 3, 300)

calculateMultiNoteConfidence(magnitude, harmonicStrength, magnitudes) ==
  Max(0, Min(1000, multiEnergyConfidence(magnitude, magnitudes)
                   + multiHarmonicConfidence(harmonicStrength)
                   + multiSnrConfidence(magnitude, magnitudes)))

CandidateNote(frequencies, magnitudes, peak) ==
  LET frequency == frequencies[peak.index + 1]
      harmonicStrength == calculateHarmonicStrength(frequency, frequencies, magnitudes)
  IN [frequency |-> frequency,
      confidence |-> calculateMultiNoteConfidence(peak.magnitude, harmonicStrength, magnitudes),
      magnitude |-> peak.magnitude * harmonicStrength]

(* Mutant: no peak is discarded for its confidence. *)
KeepsEveryNote(note) == note.confidence >= 0

(* if (confidence > 0.1) candidateNotes.push(...) *)
KeepsNote(note) == note.confidence > ConfidenceFloor

CandidateNotes(frequencies, magnitudes, peaks) ==
  SelectSeq([k \in 1..Len(peaks) |-> CandidateNote(frequencies, magnitudes, peaks[k])],
            KeepsNote)

(* candidateNotes.sort((a, b) => b.magnitude - a.magnitude) *)
RECURSIVE InsertByMagnitude(_, _)
InsertByMagnitude(c, sorted) ==
  IF sorted = <<>> THEN <<c>>
  ELSE IF Head(sorted).magnitude >= c.magnitude
       THEN <<Head(sorted)>> \o InsertByMagnitude(c, Tail(sorted))
       ELSE <<c>> \o sorted
(* Mutant: the candidate notes stay in the order of their peaks. *)
InPeakOrder(s) == s

RECURSIVE SortByMagnitude(_)
SortByMagnitude(s) ==
  IF s = <<>> THEN <<>>
  ELSE InsertByMagnitude(s[Len(s)], SortByMagnitude(SubSeq(s, 1, Len(s) - 1)))

(* Mutants of the overlap test: only ratios below 1.05, all ratios below   *)
(* 1.2.                                                                    *)
OverlapsBelow105(a, b) ==
  Max(a.frequency, b.frequency) * 100 < Min(a.frequency, b.frequency) * 105
OverlapsBelow120(a, b) ==
  Max(a.frequency, b.frequency) * 10 < Min(a.frequency, b.frequency) * 12

(* frequencyRatio < 1.1, on integer frequencies *)
Overlaps(a, b) ==
  Max(a.frequency, b.frequency) * 10 < Min(a.frequency, b.frequency) * 11

(* Mutant: a merged note as strong as the best so far replaces it. *)
RECURSIVE MergeFromReplacingTies(_, _, _, _)
MergeFromReplacingTies(notes, i, j, st) ==
  IF j >= Len(notes) THEN st
  ELSE IF j \in st.used \/ ~Overlaps(notes[i + 1], notes[j + 1])
       THEN MergeFromReplacingTies(notes, i, j + 1, st)
       ELSE MergeFromReplacingTies(notes, i, j + 1,
              IF notes[j + 1].magnitude >= st.bestNote.magnitude
              THEN [bestNote |-> notes[j + 1], bestIndex |-> j, used |-> st.used \cup {j}]
              ELSE [st EXCEPT !.used = st.used \cup {j}])

(* The inner loop of filterOverlappingNotes from j (0-based) on. *)
RECURSIVE MergeFrom(_, _, _, _)
MergeFrom(notes, i, j, st) ==
  IF j >= Len(notes) THEN st
  ELSE IF j \in st.used \/ ~Overlaps(notes[i + 1], notes[j + 1])
       THEN MergeFrom(notes, i, j + 1, st)
       ELSE MergeFrom(notes, i, j + 1,
              IF notes[j + 1].magnitude > st.bestNote.magnitude
              THEN [bestNote |-> notes[j + 1], bestIndex |-> j, used |-> st.used \cup {j}]
              ELSE [st EXCEPT !.used = st.used \cup {j}])

(* The outer loop of filterOverlappingNotes from i (0-based) on. *)
RECURSIVE FilterFrom(_, _, _, _)
FilterFrom(notes, i, used, filtered) ==
  IF i >= Len(notes) THEN filtered
  ELSE IF i \in used THEN FilterFrom(notes, i + 1, used, filtered)
  ELSE LET st == MergeFrom(notes, i, i + 1,
                   [bestNote |-> notes[i + 1], bestIndex |-> i, used |-> used])
       IN FilterFrom(notes, i + 1, st.used \cup {st.bestIndex},
                     Append(filtered, st.bestNote))

filterOverlappingNotes(notes) ==
  IF Len(notes) <= 1 THEN notes ELSE FilterFrom(notes, 0, {}, <<>>)

(* filteredNotes.slice(0, maxNotes) *)
Truncate(notes, maxNotes) == Slice(notes, 0, maxNotes)

detectMultipleNotesInFrame(frequencies, magnitudes, maxNotes) ==
  LET startIdx == FindIndex(frequencies, minFreq)
      endIdx == FindIndex(frequencies, maxFreq)
  IN IF startIdx = -1 \/ endIdx = -1 THEN <<>>
     ELSE Truncate(
            filterOverlappingNotes(
              SortByMagnitude(
                CandidateNotes(frequencies, magnitudes,
                               findPeaks(magnitudes, startIdx, endIdx, minMagnitude)))),
            maxNotes)

(* Mutant: frames without a note are left out of noteFrames. *)
extractMultipleNotesOfFramesWithNotes(sd, maxNotes) ==
  [times |-> sd.times,
   noteFrames |-> SelectSeq([k \in 1..Len(sd.magnitudes) |->
                               [time |-> sd.times[k],
                                notes |-> detectMultipleNotesInFrame(sd.frequencies,
                                                                     sd.magnitudes[k], maxNotes)]],
                            LAMBDA noteFrame : noteFrame.notes # <<>>)]

extractMultipleNotes(sd, maxNotes) ==
  [times |-> sd.times,
   noteFrames |-> [k \in 1..Len(sd.magnitudes) |->
                     [time |-> sd.times[k],
                      notes |-> detectMultipleNotesInFrame(sd.frequencies,
                                                           sd.magnitudes[k], maxNotes)]]]

---------------------------------------------------------------------------
(* The spectral aggregator. *)

(* The aggregator adds and divides numbers, and an average of equal values *)
(* is decided by the rounding of these operations: a number keeps          *)
(* SignificandBits significant bits (binary64 keeps 53), every magnitude   *)
(* of the model (below 2^SignificandBits thousandths) is representable,    *)
(* and a sum or quotient is rounded to the nearest representable number,   *)
(* a tie to the one with an even significand.                              *)
RECURSIVE ExponentFrom(_, _, _)
ExponentFrom(num, den, e) ==
  IF num < den * 2^(SignificandBits + e) THEN e ELSE ExponentFrom(num, den, e + 1)

(* num / den rounded to an integer, a tie to the even one. *)
RoundHalfEven(num, den) ==
  LET q == num \div den
      r == num % den
  IN IF 2 * r > den \/ (2 * r = den /\ q % 2 = 1) THEN q + 1 ELSE q

(* num / den (>= 0) rounded to SignificandBits significant bits. *)
RoundToSignificand(num, den) ==
  LET spacing == 2^ExponentFrom(num, den, 0)
  IN spacing * RoundHalfEven(num, den * spacing)

FloatAdd(a, b) == RoundToSignificand(a + b, 1)
FloatDivide(a, n) == RoundToSignificand(a, n)

(* overallMagnitudes[bin] after the first k frames were added. *)
RECURSIVE BinSum(_, _, _)
BinSum(frames, k, bin) ==
  IF k = 0 THEN 0
  ELSE IF bin <= Len(frames[k])
       THEN FloatAdd(BinSum(frames, k - 1, bin), frames[k][bin])
       ELSE BinSum(frames, k - 1, bin)

(* Mutant: the sums are not divided by the number of frames. *)
calculateOverallFrequencySpectrumOfSums(sd) ==
  [frequencies |-> sd.frequencies,
   magnitudes |-> [bin \in 1..Len(sd.frequencies) |->
                     BinSum(sd.magnitudes, Len(sd.magnitudes), bin)]]

calculateOverallFrequencySpectrum(sd) ==
  [frequencies |-> sd.frequencies,
   magnitudes |-> [bin \in 1..Len(sd.frequencies) |->
                     IF Len(sd.magnitudes) > 0
                     THEN FloatDivide(BinSum(sd.magnitudes, Len(sd.magnitudes), bin),
                                      Len(sd.magnitudes))
                     ELSE 0]]

---------------------------------------------------------------------------
(* The inputs of the model. *)

(* new AudioAnalyzer(fftSize, hopSize?): hopArg is <<>> when omitted. *)
HopArgs == {<<>>} \cup {<<h>> : h \in 0..MaxHop}

(* Signals of every length up to MaxLen: constant ones (silence among them) *)
(* and one that alternates between 1 and 0.                                 *)
Signals ==
  {[k \in 1..n |-> v] : v \in SampleValues, n \in 0..MaxLen}
  \cup {[k \in 1..n |-> IF k % 2 = 1 THEN 1000 ELSE 0] : n \in 0..MaxLen}
AudioBuffers == [sampleRate : SampleRates, channelData : Signals]

(* extractMultipleNotes(spectrogramData, maxNotes = 5) *)
DefaultMaxNotes == 5
MaxNotesArgs == {<<>>} \cup {<<n>> : n \in 0..MaxNotesBound}
MaxNotesOf(maxNotesArg) ==
  IF maxNotesArg = <<>> THEN DefaultMaxNotes ELSE maxNotesArg[1]

(* Spectrograms a caller builds for the three downstream operations: the    *)
(* bins of a transform of size 128 (64 bins, hop 32) at a sample rate of    *)
(* 128 * binSize, so that the 80-2000 Hz band spans many bins.              *)
ActiveBins == {2, 4, 34, 39, 45}
ChordBins == {4, 31, 34, 37}
TrackBins == {4, 34}
Levels == {60, 150, 1000}
ChordLevels == {150, 1000}
Backgrounds == {0, 20}

PitchFrequencies(binSize) == [k \in 1..64 |-> (k - 1) * binSize]

FrameOf(level, background) ==
  [k \in 1..64 |-> IF (k - 1) \in DOMAIN level THEN level[k - 1] ELSE background]

LevelMaps(bins, most, levels) ==
  UNION {[S -> levels] : S \in {T \in SUBSET bins : Cardinality(T) <= most}}

(* Frames with few raised bins over a flat background; chords of up to     *)
(* four loud bins, three of them closer than a ratio of 1.1; and the few   *)
(* frames the multi-frame spectrograms are made of.                        *)
RichFrames ==
  {FrameOf(level, b) : level \in LevelMaps(ActiveBins, MaxActive, Levels), b \in Backgrounds}
ChordFrames ==
  {FrameOf(level, 0) : level \in LevelMaps(ChordBins, Cardinality(ChordBins), ChordLevels)}
TrackFrames ==
  {FrameOf(level, 0) :
     level \in LevelMaps({4}, 1, ChordLevels) \cup LevelMaps(TrackBins, 1, {1000})}

(* Two peaks at a frequency ratio of 1.5 (300 Hz and 450 Hz at 50 Hz per   *)
(* bin); and a loud plateau with a notch around bin 34 in which a small    *)
(* peak stands, with little energy and little above the noise level.       *)
IntervalBins == {6, 9}
NotchBins == 32..36
IntervalFrames ==
  {FrameOf(level, 0) : level \in [IntervalBins -> ChordLevels]}
NotchFrames ==
  {FrameOf([i \in NotchBins |-> IF i = 34 THEN peak ELSE 50], 1000) : peak \in Levels}

(* A frame with one magnitude (1.37) whose threefold, 4.11, is not a       *)
(* number of 11 significant bits, for spectrograms of equal frames; its    *)
(* square is within the range of the energy sums.                          *)
FullLevels == {1370}
EqualFrames == {FrameOf([i \in {4} |-> level], 0) : level \in FullLevels}

PitchSpectrogram(binSize, frames) ==
  [frequencies |-> PitchFrequencies(binSize),
   times |-> [k \in 1..Len(frames) |-> FrameTime((k - 1) * 32, 128 * binSize)],
   magnitudes |-> frames]

(* Unevenly spaced bins: 190 Hz and 210 Hz in place of 200 Hz and 250 Hz,  *)
(* equally far from the second harmonic of 100 Hz; with frames that raise  *)
(* the bins at 100 Hz, 190 Hz, 210 Hz and 400 Hz.                          *)
UnevenFrequencies ==
  [k \in 1..64 |-> IF k = 5 THEN 190 ELSE IF k = 6 THEN 210 ELSE (k - 1) * 50]
UnevenBins == {2, 4, 5, 8}
UnevenFrames == {FrameOf(level, 0) : level \in [UnevenBins -> ChordLevels]}
UnevenSpectrogram(frames) ==
  [PitchSpectrogram(50, frames) EXCEPT !.frequencies = UnevenFrequencies]

(* Bins that begin inside the band (100 Hz, 150 Hz, ...), so that the      *)
(* second bin has no neighbour two bins below; with frames that raise     *)
(* some of the second, the fifth and the seventh bin, to 0.04 as well.     *)
OffsetFrequencies == [k \in 1..64 |-> (k + 1) * 50]
OffsetBins == {1, 4, 6}
OffsetLevels == {40, 150, 1000}
OffsetFrames ==
  {FrameOf(level, 0) : level \in LevelMaps(OffsetBins, Cardinality(OffsetBins), OffsetLevels)}
OffsetSpectrogram(frames) ==
  [PitchSpectrogram(50, frames) EXCEPT !.frequencies = OffsetFrequencies]

(* Frames that raise the first bin of the band (100 Hz at 50 Hz per bin)   *)
(* and the last but one (1900 Hz).                                         *)
EdgeBins == {2, 38}
EdgeFrames == {FrameOf(level, 0) : level \in [EdgeBins -> ChordLevels]}

(* At 50 Hz per bin the band is bins 2 .. 39; at 25 Hz per bin no bin      *)
(* reaches 2000 Hz.                                                        *)
CallerSpectrograms ==
  {PitchSpectrogram(50, <<frame>>) :
     frame \in RichFrames \cup ChordFrames \cup IntervalFrames \cup NotchFrames
                 \cup EdgeFrames}
  \cup {PitchSpectrogram(50, frames) :
          frames \in UNION {[1..n -> TrackFrames] : n \in 0..MaxFrames}}
  \cup {PitchSpectrogram(25, <<frame>>) : frame \in TrackFrames}
  \cup {PitchSpectrogram(50, [k \in 1..n |-> frame]) :
          frame \in EqualFrames, n \in 1..MaxFrames}
  \cup {UnevenSpectrogram(<<frame>>) : frame \in UnevenFrames}
  \cup {OffsetSpectrogram(<<frame>>) : frame \in OffsetFrames}

EmptySpectrogram == [frequencies |-> <<>>, times |-> <<>>, magnitudes |-> <<>>]
NoBuffer == [sampleRate |-> 0, channelData |-> <<>>]
NothingReturned == [op |-> "none", maxNotes |-> 0, value |-> <<>>]

---------------------------------------------------------------------------
(* MusicTheoryUtils: the note of a frequency. Frequencies are integers in  *)
(* Hz; Math.log2 and Math.pow are taken from tables, so a reference        *)
(* frequency is a fraction with 7 binary digits and cents may be one off   *)
(* within a twentieth of a cent of a half-cent boundary.                   *)

NOTE_NAMES == <<"C", "C#", "D", "D#", "E", "F", "F#", "G", "G#", "A", "A#", "B">>
A4_FREQUENCY == 440
A4_MIDI_NUMBER == 69

(* 128 * A4_FREQUENCY * 2^(r / 12) and 128 * A4_FREQUENCY * 2^((r - 0.5) / 12) *)
(* for r = 0 .. 11: the notes of the octave from A4 on, and the lower ends *)
(* of the frequencies that round to them.                                  *)
SemitoneTable ==
  <<56320, 59669, 63217, 66976, 70959, 75178, 79649, 84385, 89402, 94719, 100351, 106318>>
HalfSemitoneTable ==
  <<54717, 57970, 61417, 65069, 68939, 73038, 77381, 81982, 86857, 92022, 97494, 103291>>

(* 10000 * 2^((c - 0.5) / 1200) for c = -50 .. 51. *)
CentTable ==
  <<9713, 9718, 9724, 9729, 9735, 9741, 9746, 9752, 9757, 9763, 9769, 9774, 9780,
    9786, 9791, 9797, 9803, 9808, 9814, 9820, 9825, 9831, 9837, 9842, 9848, 9854,
    9859, 9865, 9871, 9877, 9882, 9888, 9894, 9899, 9905, 9911, 9917, 9922, 9928,
    9934, 9940, 9945, 9951, 9957, 9963, 9968, 9974, 9980, 9986, 9991, 9997, 10003,
    10009, 10014, 10020, 10026, 10032, 10038, 10043, 10049, 10055, 10061, 10067,
    10072, 10078, 10084, 10090, 10096, 10102, 10107, 10113, 10119, 10125, 10131,
    10137, 10143, 10148, 10154, 10160, 10166, 10172, 10178, 10184, 10190, 10195,
    10201, 10207, 10213, 10219, 10225, 10231, 10237, 10243, 10249, 10254, 10260,
    10266, 10272, 10278, 10284, 10290, 10296>>

(* midiNumber - A4_MIDI_NUMBER = 12 * OctaveFromA4 + StepFromA. *)
OctaveFromA4(midiNumber) == (midiNumber - A4_MIDI_NUMBER) \div 12
StepFromA(midiNumber) == (midiNumber - A4_MIDI_NUMBER) % 12

(* a >= b * 2^q for integers a, b and any integer q. *)
AtLeastScaled(a, b, q) == IF q < 0 THEN a * 2^(-q) >= b ELSE a \div 2^q >= b

(* A4_FREQUENCY * Math.pow(2, (midiNumber - A4_MIDI_NUMBER) / 12) *)
midiNumberToFrequency(midiNumber) ==
  [num |-> SemitoneTable[StepFromA(midiNumber) + 1]
             * (IF OctaveFromA4(midiNumber) > 0 THEN 2^OctaveFromA4(midiNumber) ELSE 1),
   den |-> 128 * (IF OctaveFromA4(midiNumber) < 0 THEN 2^(-OctaveFromA4(midiNumber)) ELSE 1)]

(* The MIDI numbers of the frequencies from below 1 Hz to above 1900 Hz. *)
MidiNumbers == (-37)..96

(* Math.round(A4_MIDI_NUMBER + 12 * Math.log2(frequency / A4_FREQUENCY)):  *)
(* the largest MIDI number whose lower end is at most the frequency.       *)
RoundedMidiNumber(frequency) ==
  (-38) + Cardinality({m \in MidiNumbers :
                         AtLeastScaled(frequency * 128,
                                       HalfSemitoneTable[StepFromA(m) + 1],
                                       OctaveFromA4(m))})

(* Math.round(1200 * Math.log2(frequency / exactFrequency)) for the exact  *)
(* frequency of midiNumber.                                                *)
CentsFrom(frequency, midiNumber) ==
  (-51) + Cardinality({c \in 1..Len(CentTable) :
                         AtLeastScaled(frequency * 128 * 10000,
                                       SemitoneTable[StepFromA(midiNumber) + 1] * CentTable[c],
                                       OctaveFromA4(midiNumber))})

(* a % n of JavaScript: the remainder has the sign of a. *)
Remainder(a, n) == IF a >= 0 THEN a % n ELSE -((-a) % n)

(* this.NOTE_NAMES[noteIndex]: undefined outside the array. *)
NoteNameAt(noteIndex) ==
  IF noteIndex \in 0..(Len(NOTE_NAMES) - 1) THEN NOTE_NAMES[noteIndex + 1] ELSE "undefined"

frequencyToNote(frequency) ==
  IF frequency <= 0
  THEN [name |-> "-", octave |-> 0, frequency |-> [num |-> 0, den |-> 1], cents |-> 0]
  ELSE LET roundedMidiNumber == RoundedMidiNumber(frequency)
           noteIndex == Remainder(roundedMidiNumber - 12, 12)
           octave == (roundedMidiNumber - 12) \div 12
       IN [name |-> NoteNameAt(noteIndex),
           octave |-> octave,
           frequency |-> midiNumberToFrequency(roundedMidiNumber),
           cents |-> CentsFrom(frequency, roundedMidiNumber)]

(* The frequencies given to frequencyToNote: none and negative ones, every *)
(* integer up to MaxNoteFrequency, and the A of three octaves.             *)
NoteFrequencies == ((-2)..MaxNoteFrequency) \cup {220, 440, 880}

---------------------------------------------------------------------------
(* App and useAudioProcessor. A decoded buffer is known by the number of   *)
(* the processAudioFile call that decoded it, and an analysis result by    *)
(* the buffer it was computed from; null is 0.                             *)

null == 0
AnalysisModes == {"single", "multiple"}

NoFile == [name |-> "", extension |-> "", type |-> ""]
Files ==
  {[name |-> "a", extension |-> "m4a", type |-> "audio/mp4"],
   [name |-> "b", extension |-> "mp3", type |-> ""],
   [name |-> "notes", extension |-> "txt", type |-> "text/plain"]}

(* file.name ends with .m4a or .mp3, or file.type is an audio type or ''. *)
isSupportedAudio(file) ==
  \/ file.extension \in {"m4a", "mp3"}
  \/ file.type \in {"audio/mp4", "audio/x-m4a", "audio/aac", "audio/mpeg", "audio/mp3", ""}

NoError == "null"
ReadErrors == {"failed"}
DecodeErrors == {"decode", "unsupported"}

InitialApp ==
  [audioFile |-> NoFile, spectrogramData |-> null, fundamentalData |-> null,
   multipleNotesData |-> null, analysisMode |-> "single", isAnalyzing |-> FALSE]
InitialProcessor == [audioData |-> null, isLoading |-> FALSE, error |-> NoError]

(* clearAudioData: setAudioData(null); setError(null) *)
clearAudioData(p) == [p EXCEPT !.audioData = null, !.error = NoError]

(* processAudioFile up to its first await: setIsLoading(true); setError(null) *)
processingStarted(p) == [p EXCEPT !.isLoading = TRUE, !.error = NoError]

(* Mutant: the failure path leaves isLoading alone (no finally). *)
processingFailedStillLoading(p, message) == [p EXCEPT !.error = message]

(* catch: setError(message); finally: setIsLoading(false) *)
processingFailed(p, message) == [p EXCEPT !.error = message, !.isLoading = FALSE]

(* Mutant: the effect schedules while an analysis is under way. *)
analysisEffectDueWhileAnalyzing(a, p) ==
  /\ p.audioData # null
  /\ a.spectrogramData = null
  /\ a.fundamentalData = null
  /\ a.multipleNotesData = null
  /\ Len(timers) < 2

(* audioData && !spectrogramData && !fundamentalData && !multipleNotesData *)
(* && !isAnalyzing                                                         *)
analysisEffectDue(a, p) ==
  /\ p.audioData # null
  /\ a.spectrogramData = null
  /\ a.fundamentalData = null
  /\ a.multipleNotesData = null
  /\ ~a.isAnalyzing

(* The callback's try block for the closure's audioData and analysisMode,  *)
(* then finally.                                                           *)
analysisStored(a, closure) ==
  IF closure.analysisMode = "single"
  THEN [a EXCEPT !.fundamentalData = closure.audioData,
                 !.spectrogramData = closure.audioData,
                 !.isAnalyzing = FALSE]
  ELSE [a EXCEPT !.multipleNotesData = closure.audioData,
                 !.spectrogramData = closure.audioData,
                 !.isAnalyzing = FALSE]

---------------------------------------------------------------------------
(* The state machine: an analyzer and the calls made on it. *)

Constructed(size, hopArg) ==
  /\ fftSize = size
  /\ hopSize = ConstructorHopSize(size, hopArg)
  /\ sampleRate = 0
  /\ cachedBefore = 0
  /\ audioBuffer = NoBuffer
  /\ returned = NothingReturned
  /\ observed = <<>>
  /\ hung = FALSE
  /\ app = InitialApp
  /\ processor = InitialProcessor
  /\ calls = <<>>
  /\ timers = <<>>

(* A fresh analyzer of a small transform size; the caller holds no frames. *)
Init ==
  /\ \E size \in FftSizes, hopArg \in HopArgs : Constructed(size, hopArg)
  /\ spectrogramData = EmptySpectrogram

(* A fresh analyzer and a spectrogram the caller has built. *)
InitPitch ==
  /\ Constructed(128, <<>>)
  /\ spectrogramData \in CallerSpectrograms

(* Mutant: the bins are generated before the buffer's rate is stored. *)
StaleSampleRate(buffer, cached) == cached

(* this.sampleRate = audioBuffer.sampleRate *)
CachedSampleRate(buffer, cached) == buffer.sampleRate

SamplesReadBy(buffer, size, hop) ==
  LET starts == FrameStarts(size, hop, Len(buffer.channelData))
  IN [k \in 1..Len(starts) |-> {starts[k] + j : j \in 0..(size - 1)}]

(* Mutant: the spectrogram is computed with the rate cached before the call. *)
AnalyzeSpectrumWithOldRate(buffer) ==
  /\ ~hung
  /\ UNCHANGED uiVars
  /\ sampleRate' = CachedSampleRate(buffer, sampleRate)
  /\ cachedBefore' = sampleRate
  /\ audioBuffer' = buffer
  /\ IF AnalyzeDiverges(buffer, fftSize, hopSize)
     THEN /\ hung' = TRUE
          /\ UNCHANGED <<spectrogramData, returned, observed>>
     ELSE /\ hung' = FALSE
          /\ spectrogramData' = analyzeSpectrum(buffer, fftSize, hopSize, sampleRate)
          /\ returned' = [op |-> "analyzeSpectrum", maxNotes |-> 0,
                          value |-> spectrogramData']
          /\ observed' = SamplesReadBy(buffer, fftSize, hopSize)
  /\ UNCHANGED <<fftSize, hopSize>>

AnalyzeSpectrum(buffer) ==
  /\ ~hung
  /\ UNCHANGED uiVars
  /\ sampleRate' = CachedSampleRate(buffer, sampleRate)
  /\ cachedBefore' = sampleRate
  /\ audioBuffer' = buffer
  /\ IF AnalyzeDiverges(buffer, fftSize, hopSize)
     THEN /\ hung' = TRUE
          /\ UNCHANGED <<spectrogramData, returned, observed>>
     ELSE /\ hung' = FALSE
          /\ spectrogramData' = analyzeSpectrum(buffer, fftSize, hopSize, sampleRate')
          /\ returned' = [op |-> "analyzeSpectrum", maxNotes |-> 0,
                          value |-> spectrogramData']
          /\ observed' = SamplesReadBy(buffer, fftSize, hopSize)
  /\ UNCHANGED <<fftSize, hopSize>>

(* Mutant: calculateConfidence sorts the frame itself, not a copy. *)
ExtractFundamentalFrequencySortingFrames ==
  /\ ~hung
  /\ UNCHANGED uiVars
  /\ returned' = [op |-> "extractFundamentalFrequency", maxNotes |-> 0,
                  value |-> extractFundamentalFrequency(spectrogramData)]
  /\ observed' = FundamentalRun(spectrogramData).previous
  /\ spectrogramData' =
       [spectrogramData EXCEPT !.magnitudes =
          [k \in 1..Len(spectrogramData.magnitudes) |->
             SortDescending(spectrogramData.magnitudes[k])]]
  /\ UNCHANGED <<fftSize, hopSize, sampleRate, cachedBefore, audioBuffer, hung>>

ExtractFundamentalFrequency ==
  /\ ~hung
  /\ UNCHANGED uiVars
  /\ returned' = [op |-> "extractFundamentalFrequency", maxNotes |-> 0,
                  value |-> extractFundamentalFrequency(spectrogramData)]
  /\ observed' = FundamentalRun(spectrogramData).previous
  /\ UNCHANGED <<fftSize, hopSize, sampleRate, cachedBefore, audioBuffer,
                 spectrogramData, hung>>

ExtractMultipleNotes(maxNotesArg) ==
  /\ ~hung
  /\ UNCHANGED uiVars
  /\ returned' = [op |-> "extractMultipleNotes", maxNotes |-> MaxNotesOf(maxNotesArg),
                  value |-> extractMultipleNotes(spectrogramData, MaxNotesOf(maxNotesArg))]
  /\ observed' = <<>>
  /\ UNCHANGED <<fftSize, hopSize, sampleRate, cachedBefore, audioBuffer,
                 spectrogramData, hung>>

CalculateOverallFrequencySpectrum ==
  /\ ~hung
  /\ UNCHANGED uiVars
  /\ returned' = [op |-> "calculateOverallFrequencySpectrum", maxNotes |-> 0,
                  value |-> calculateOverallFrequencySpectrum(spectrogramData)]
  /\ observed' = <<>>
  /\ UNCHANGED <<fftSize, hopSize, sampleRate, cachedBefore, audioBuffer,
                 spectrogramData, hung>>

(* A call of the static MusicTheoryUtils.frequencyToNote. *)
FrequencyToNote(frequency) ==
  /\ returned' = [op |-> "frequencyToNote", maxNotes |-> 0,
                  value |-> frequencyToNote(frequency)]
  /\ observed' = <<frequency>>
  /\ UNCHANGED uiVars
  /\ UNCHANGED <<fftSize, hopSize, sampleRate, cachedBefore, audioBuffer,
                 spectrogramData, hung>>

(* onDrop with a supported file; processAudioFile runs up to its first    *)
(* await.                                                                  *)
OnDrop(file) ==
  /\ Len(calls) < MaxDrops
  /\ isSupportedAudio(file)
  /\ app' = [app EXCEPT !.audioFile = file, !.spectrogramData = null,
                        !.fundamentalData = null, !.multipleNotesData = null]
  /\ processor' = processingStarted(clearAudioData(processor))
  /\ calls' = Append(calls, [file |-> file, at |-> "reading"])
  /\ UNCHANGED timers
  /\ UNCHANGED analyzerVars

(* file.arrayBuffer() of call c resolves, or rejects. *)
ReadCompletes(c) ==
  /\ calls[c].at = "reading"
  /\ calls' = [calls EXCEPT ![c].at = "decoding"]
  /\ UNCHANGED <<app, processor, timers>>
  /\ UNCHANGED analyzerVars
ReadFails(c, message) ==
  /\ calls[c].at = "reading"
  /\ processor' = processingFailed(processor, message)
  /\ calls' = [calls EXCEPT ![c].at = "failed"]
  /\ UNCHANGED <<app, timers>>
  /\ UNCHANGED analyzerVars

(* decodeAudioData of call c resolves: setAudioData(processedData), then   *)
(* await audioContext.close(); or it rejects.                              *)
DecodeCompletes(c) ==
  /\ calls[c].at = "decoding"
  /\ processor' = [processor EXCEPT !.audioData = c]
  /\ calls' = [calls EXCEPT ![c].at = "closing"]
  /\ UNCHANGED <<app, timers>>
  /\ UNCHANGED analyzerVars
DecodeFails(c, message) ==
  /\ calls[c].at = "decoding"
  /\ processor' = processingFailed(processor, message)
  /\ calls' = [calls EXCEPT ![c].at = "failed"]
  /\ UNCHANGED <<app, timers>>
  /\ UNCHANGED analyzerVars

(* audioContext.close() of call c resolves; finally: setIsLoading(false) *)
CloseCompletes(c) ==
  /\ calls[c].at = "closing"
  /\ processor' = [processor EXCEPT !.isLoading = FALSE]
  /\ calls' = [calls EXCEPT ![c].at = "done"]
  /\ UNCHANGED <<app, timers>>
  /\ UNCHANGED analyzerVars

(* The analysis effect after a render in which its condition holds:        *)
(* setIsAnalyzing(true); setTimeout(callback, 100)                         *)
AnalysisEffect ==
  /\ analysisEffectDue(app, processor)
  /\ app' = [app EXCEPT !.isAnalyzing = TRUE]
  /\ timers' = Append(timers, [audioData |-> processor.audioData,
                               analysisMode |-> app.analysisMode])
  /\ UNCHANGED <<processor, calls>>
  /\ UNCHANGED analyzerVars

(* The oldest pending callback runs: it stores its results, or the         *)
(* analysis throws; finally: setIsAnalyzing(false)                         *)
TimerFires(threw) ==
  /\ timers # <<>>
  /\ app' = IF threw THEN [app EXCEPT !.isAnalyzing = FALSE]
            ELSE analysisStored(app, Head(timers))
  /\ timers' = Tail(timers)
  /\ UNCHANGED <<processor, calls>>
  /\ UNCHANGED analyzerVars

(* handleModeChange(mode) with mode !== analysisMode *)
HandleModeChange(mode) ==
  /\ mode # app.analysisMode
  /\ app' = [app EXCEPT !.analysisMode = mode, !.fundamentalData = null,
                        !.multipleNotesData = null]
  /\ UNCHANGED <<processor, calls, timers>>
  /\ UNCHANGED analyzerVars

Next ==
  \/ \E buffer \in AudioBuffers : AnalyzeSpectrum(buffer)
  \/ ExtractFundamentalFrequency
  \/ \E maxNotesArg \in MaxNotesArgs : ExtractMultipleNotes(maxNotesArg)
  \/ CalculateOverallFrequencySpectrum

(* One call on the caller's spectrogram: the first on the analyzer. *)
NextPitch ==
  \/ returned.op = "none" /\ ExtractFundamentalFrequency
  \/ returned.op = "none" /\ \E maxNotesArg \in MaxNotesArgs : ExtractMultipleNotes(maxNotesArg)
  \/ returned.op = "none" /\ CalculateOverallFrequencySpectrum

(* Calls of frequencyToNote, which reads nothing of an analyzer. *)
InitNotes ==
  /\ Constructed(128, <<>>)
  /\ spectrogramData = EmptySpectrogram
NextNotes == \E frequency \in NoteFrequencies : FrequencyToNote(frequency)

(* The application: what the user does, and what the browser runs.        *)
InitApp ==
  /\ Constructed(2048, <<512>>)
  /\ spectrogramData = EmptySpectrogram
UserNext ==
  \/ \E file \in Files : OnDrop(file)
  \/ \E mode \in AnalysisModes : HandleModeChange(mode)
BrowserNext ==
  \/ \E c \in 1..Len(calls) : ReadCompletes(c)
  \/ \E c \in 1..Len(calls) : \E message \in ReadErrors : ReadFails(c, message)
  \/ \E c \in 1..Len(calls) : DecodeCompletes(c)
  \/ \E c \in 1..Len(calls) : \E message \in DecodeErrors : DecodeFails(c, message)
  \/ \E c \in 1..Len(calls) : CloseCompletes(c)
  \/ AnalysisEffect
  \/ \E threw \in BOOLEAN : TimerFires(threw)
NextApp == UserNext \/ BrowserNext

Spec == Init /\ [][Next]_vars
SpecPitch == InitPitch /\ [][NextPitch]_vars
SpecNotes == InitNotes /\ [][NextNotes]_vars
SpecApp == InitApp /\ [][NextApp]_vars
(* Promises settle, effects run and timers fire; the user need not act. *)
SpecAppFair == InitApp /\ [][NextApp]_vars /\ WF_vars(BrowserNext)

---------------------------------------------------------------------------
(* Properties of analyzeSpectrum, checked under Spec. *)

(* The last call was an analyzeSpectrum that returned. *)
Analyzed == returned.op = "analyzeSpectrum" /\ ~hung
SignalLength == Len(audioBuffer.channelData)

(* C1: for every signal length L, transform size N and hop size H > 0,     *)
(* analyzeSpectrum produces floor((L - N) / H) + 1 frames when L >= N and  *)
(* no frame when L < N.                                                    *)
C1_FrameCount ==
  (Analyzed /\ hopSize > 0) =>
    Len(returned.value.magnitudes) =
      IF SignalLength >= fftSize THEN (SignalLength - fftSize) \div hopSize + 1 ELSE 0

(* Several frames, and a tail of samples that fills no frame. *)
C1_Witness ==
  /\ Analyzed /\ hopSize > 1
  /\ Len(returned.value.magnitudes) >= 2
  /\ (SignalLength - fftSize) % hopSize # 0

(* C2: a spectrogram returned by analyzeSpectrum has as many magnitude     *)
(* frames as times, and every frame has frequencies.length = fftSize / 2   *)
(* magnitudes.                                                             *)
C2_SpectrogramShape ==
  Analyzed =>
    /\ Len(returned.value.magnitudes) = Len(returned.value.times)
    /\ 2 * Len(returned.value.frequencies) = fftSize
    /\ \A k \in 1..Len(returned.value.magnitudes) :
         Len(returned.value.magnitudes[k]) = Len(returned.value.frequencies)

C2_Witness ==
  /\ Analyzed /\ fftSize = 4
  /\ Len(returned.value.magnitudes) >= 2
  /\ Len(returned.value.magnitudes[2]) = 2

(* C3: the frequencies of a spectrogram start at 0, are strictly           *)
(* increasing and satisfy frequencies[i] = i * sampleRate / fftSize, with  *)
(* the sample rate of the buffer passed to this call.                      *)
C3_FrequencyBins ==
  Analyzed =>
    /\ returned.value.frequencies[1] = 0
    /\ \A k \in 1..Len(returned.value.frequencies) :
         returned.value.frequencies[k] * fftSize = (k - 1) * audioBuffer.sampleRate
    /\ \A k \in 2..Len(returned.value.frequencies) :
         returned.value.frequencies[k - 1] < returned.value.frequencies[k]

C3_Witness ==
  /\ Analyzed /\ fftSize = 4 /\ audioBuffer.sampleRate = 44100
  /\ returned.value.frequencies = <<0, 11025>>

(* C4: frame k (from 0) starts at sample k * hopSize, has the time         *)
(* k * hopSize / sampleRate and reads exactly the fftSize samples from its *)
(* start on, all of them inside the signal.                                *)
C4_FramePlacement ==
  (Analyzed /\ hopSize > 0) =>
    /\ Len(observed) = Len(returned.value.times)
    /\ \A k \in 1..Len(returned.value.times) :
         /\ observed[k] = {(k - 1) * hopSize + j : j \in 0..(fftSize - 1)}
         /\ observed[k] \subseteq 0..(SignalLength - 1)
         /\ returned.value.times[k].den # 0
         /\ returned.value.times[k].num * audioBuffer.sampleRate
              = (k - 1) * hopSize * returned.value.times[k].den
         /\ \A b \in 1..Len(returned.value.magnitudes[k]) :
              returned.value.magnitudes[k][b] # NaN

(* The last frame ends before the end of the signal. *)
C4_Witness ==
  /\ Analyzed /\ hopSize = 2 /\ fftSize = 4
  /\ Len(returned.value.times) = 2
  /\ SignalLength = 7
  /\ returned.value.times[2].num = 2

---------------------------------------------------------------------------
(* Properties of the pitch estimators, checked under SpecPitch. *)

FundamentalsExtracted == returned.op = "extractFundamentalFrequency"
NotesExtracted == returned.op = "extractMultipleNotes"
Bins == spectrogramData.frequencies
Frames == spectrogramData.magnitudes
FrameNumbers == 1..Len(Frames)

(* The bins of frame k inside 80 Hz <= freq < 2000 Hz that are louder than *)
(* 0.1, and their strength magnitude * harmonicStrength.                   *)
InBand(i) == Bins[i] >= 80 /\ Bins[i] < 2000
LoudBins(k) == {i \in 1..Len(Bins) : InBand(i) /\ Frames[k][i] > 100}
StrengthOf(k, i) == Frames[k][i] * calculateHarmonicStrength(Bins[i], Bins, Frames[k])
SilentFrame(k) == \A i \in 1..Len(Frames[k]) : Frames[k][i] = 0

(* The frequency passed as previousFreq for frame k according to the       *)
(* results: 0 for the first frame, else what the frame before emitted.     *)
EmittedBefore(k) == IF k = 1 THEN 0 ELSE returned.value.frequencies[k - 1]

(* C5: in every frame that has a bin with 80 <= freq < 2000 louder than    *)
(* 0.1, extractFundamentalFrequency emits a nonzero frequency, the centre  *)
(* of an in-band bin of maximal strength among the loud in-band bins.      *)
C5_StrongestLoudBin ==
  FundamentalsExtracted =>
    \A k \in FrameNumbers :
      LoudBins(k) # {} =>
        \E i \in LoudBins(k) :
          /\ returned.value.frequencies[k] = Bins[i]
          /\ returned.value.frequencies[k] # 0
          /\ \A j \in LoudBins(k) : StrengthOf(k, i) >= StrengthOf(k, j)

(* The peaks of a frame that survive the confidence floor. *)
SurvivingPeaks(k) ==
  IF FindIndex(Bins, minFreq) = -1 \/ FindIndex(Bins, maxFreq) = -1 THEN <<>>
  ELSE CandidateNotes(Bins, Frames[k],
                      findPeaks(Frames[k], FindIndex(Bins, minFreq),
                                FindIndex(Bins, maxFreq), minMagnitude))

(* C6: a frame without a loud in-band bin gets frequency 0 and confidence  *)
(* 0 from extractFundamentalFrequency, and a frame without a surviving     *)
(* peak gets an empty note list from extractMultipleNotes; both results    *)
(* are complete (one entry per frame).                                     *)
C6_NoPitchIsAValue ==
  /\ FundamentalsExtracted =>
       /\ Len(returned.value.frequencies) = Len(Frames)
       /\ Len(returned.value.confidences) = Len(Frames)
       /\ \A k \in FrameNumbers :
            LoudBins(k) = {} =>
              /\ returned.value.frequencies[k] = 0
              /\ returned.value.confidences[k] = 0
  /\ NotesExtracted =>
       /\ Len(returned.value.noteFrames) = Len(Frames)
       /\ \A k \in FrameNumbers :
            SurvivingPeaks(k) = <<>> => returned.value.noteFrames[k].notes = <<>>

(* A frame whose in-band bins are not silent, yet none is louder than 0.1. *)
C6_Witness ==
  /\ FundamentalsExtracted
  /\ \E k \in FrameNumbers :
       /\ LoudBins(k) = {}
       /\ \E i \in 1..Len(Bins) : InBand(i) /\ Frames[k][i] = 60
       /\ returned.value.frequencies[k] = 0
       /\ returned.value.confidences[k] = 0

(* C7: when every frame is all-zero, every frame gets fundamental 0 with   *)
(* confidence 0 and an empty note list; no candidate and no peak is found  *)
(* in such a frame, so no confidence ratio is computed on it.              *)
C7_Silence ==
  (\A k \in FrameNumbers : SilentFrame(k)) =>
    /\ FundamentalsExtracted =>
         \A k \in FrameNumbers :
           /\ returned.value.frequencies[k] = 0
           /\ returned.value.confidences[k] = 0
           /\ FindIndex(Bins, maxFreq) # -1 =>
                CandidatesFrom(Bins, Frames[k], FindIndex(Bins, minFreq),
                               FindIndex(Bins, maxFreq), EmittedBefore(k)) = <<>>
    /\ NotesExtracted =>
         \A k \in FrameNumbers :
           /\ returned.value.noteFrames[k].notes = <<>>
           /\ FindIndex(Bins, maxFreq) # -1 =>
                findPeaks(Frames[k], FindIndex(Bins, minFreq),
                          FindIndex(Bins, maxFreq), minMagnitude) = <<>>

C7_Witness ==
  /\ NotesExtracted
  /\ Len(Frames) >= 2
  /\ FindIndex(Bins, maxFreq) # -1
  /\ \A k \in FrameNumbers :
       SilentFrame(k) /\ returned.value.noteFrames[k].notes = <<>>

(* The raw sub-scores of the bin with frequency f in frame k. *)
BinOf(f) == CHOOSE i \in 1..Len(Bins) : Bins[i] = f
RawEnergy(k, f) ==
  (Frames[k][BinOf(f)] * Frames[k][BinOf(f)] * 1000)
    \div SumSeq([i \in 1..Len(Frames[k]) |-> Frames[k][i] * Frames[k][i]])
RawHarmonic(k, f) == (calculateHarmonicStrength(f, Bins, Frames[k]) - 1000) \div 4
RawContinuity(f, previous) == (Min(f, previous) * 1000) \div Max(f, previous)
RawSnr(k, f) == Log10SnrPlusOne(Frames[k][BinOf(f)], NoiseLevel(Frames[k], 8)) \div 2
ClampedAndScaled(raw) == Min(Max(raw, 0), 250) * 4
MeanOfFour(a, b, c, d) == (a + b + c + d) \div 4

(* C8: for every frame with a pitch, the confidence is the unweighted mean *)
(* of four sub-scores; energy, harmonic and signal-to-noise are the raw    *)
(* value clamped to [0, 0.25] and multiplied by 4, and so is the temporal  *)
(* one when the previous frame has a pitch; without a previous pitch the   *)
(* temporal sub-score is 0.25, not multiplied by 4. A frame without a      *)
(* pitch has confidence 0. The confidence lies in [0, 1].                  *)
C8_ConfidenceWithNeutralDefault ==
  FundamentalsExtracted =>
    \A k \in FrameNumbers :
      LET f == returned.value.frequencies[k]
      IN /\ returned.value.confidences[k] >= 0
         /\ returned.value.confidences[k] <= 1000
         /\ f = 0 => returned.value.confidences[k] = 0
         /\ f # 0 =>
              returned.value.confidences[k] =
                MeanOfFour(ClampedAndScaled(RawEnergy(k, f)),
                           ClampedAndScaled(RawHarmonic(k, f)),
                           IF EmittedBefore(k) > 0
                           THEN ClampedAndScaled(RawContinuity(f, EmittedBefore(k)))
                           ELSE 250,
                           ClampedAndScaled(RawSnr(k, f)))

(* A first frame with a pitch, followed by a frame with another pitch. *)
C8_Witness ==
  /\ FundamentalsExtracted
  /\ Len(Frames) >= 2
  /\ returned.value.frequencies[1] # 0
  /\ returned.value.frequencies[2] # 0
  /\ returned.value.frequencies[2] # returned.value.frequencies[1]
  /\ returned.value.confidences[1] < 1000

(* C8 as stated: for every frame with a pitch the confidence is the mean   *)
(* of four sub-scores that are all clamped to [0, 0.25] and multiplied by  *)
(* 4, the temporal one (raw value 0.25) also without a previous pitch.     *)
C8_AllSubScoresScaled ==
  FundamentalsExtracted =>
    \A k \in FrameNumbers :
      LET f == returned.value.frequencies[k]
      IN f # 0 =>
           returned.value.confidences[k] =
             MeanOfFour(ClampedAndScaled(RawEnergy(k, f)),
                        ClampedAndScaled(RawHarmonic(k, f)),
                        ClampedAndScaled(IF EmittedBefore(k) > 0
                                         THEN RawContinuity(f, EmittedBefore(k))
                                         ELSE 250),
                        ClampedAndScaled(RawSnr(k, f)))

(* C9: frame 0 is estimated with previousFreq = 0 and frame i > 0 with the *)
(* frequency emitted for frame i - 1, so a frame after a no-pitch frame    *)
(* is estimated like a first frame and gets the same temporal sub-score.   *)
C9_PreviousFundamentalThreaded ==
  FundamentalsExtracted =>
    /\ Len(observed) = Len(Frames)
    /\ \A k \in FrameNumbers :
         /\ observed[k] = EmittedBefore(k)
         /\ [frequency |-> returned.value.frequencies[k],
             confidence |-> returned.value.confidences[k]]
              = estimateFundamentalFrequencyWithConfidence(Bins, Frames[k], EmittedBefore(k))
         /\ (k > 1 /\ returned.value.frequencies[k - 1] = 0) =>
              /\ temporalConfidence(returned.value.frequencies[k], observed[k])
                   = temporalConfidence(returned.value.frequencies[k], 0)
              /\ returned.value.confidences[k]
                   = estimateFundamentalFrequencyWithConfidence(Bins, Frames[k], 0).confidence

(* A pitch, then no pitch, then the first pitch again: the third frame     *)
(* repeats the confidence of the first.                                    *)
C9_Witness ==
  /\ FundamentalsExtracted
  /\ Len(Frames) = 3
  /\ returned.value.frequencies[1] # 0
  /\ returned.value.frequencies[2] = 0
  /\ Frames[3] = Frames[1]
  /\ returned.value.frequencies[3] = returned.value.frequencies[1]
  /\ returned.value.confidences[3] = returned.value.confidences[1]
  /\ observed = <<0, returned.value.frequencies[1], 0>>

(* C10: every note list emitted by extractMultipleNotes has at most        *)
(* maxNotes entries, in order of non-increasing boosted magnitude.         *)
C10_NotesCappedAndOrdered ==
  NotesExtracted =>
    \A k \in FrameNumbers :
      LET notes == returned.value.noteFrames[k].notes
      IN /\ Len(notes) <= returned.maxNotes
         /\ \A i \in 1..Len(notes) : \A j \in i..Len(notes) :
              notes[i].magnitude >= notes[j].magnitude

(* Four surviving peaks, one of them suppressed as an overlap, and the     *)
(* remaining three cut to maxNotes = 2.                                    *)
C10_Witness ==
  /\ NotesExtracted
  /\ returned.maxNotes = 2
  /\ \E k \in FrameNumbers :
       /\ Len(SurvivingPeaks(k)) = 4
       /\ Len(filterOverlappingNotes(SortByMagnitude(SurvivingPeaks(k)))) = 3
       /\ Len(returned.value.noteFrames[k].notes) = 2
       /\ returned.value.noteFrames[k].notes[1].magnitude
            > returned.value.noteFrames[k].notes[2].magnitude
       /\ returned.value.noteFrames[k].notes[1].frequency
            > returned.value.noteFrames[k].notes[2].frequency

---------------------------------------------------------------------------
(* Properties of the overlap suppression, checked under SpecPitch. *)

NotesOf(k) == returned.value.noteFrames[k].notes
Elements(s) == {s[i] : i \in 1..Len(s)}

(* max / min >= 1.1 for two frequencies. *)
Apart(f, g) == Max(f, g) * 10 >= Min(f, g) * 11

(* C11: in every emitted note frame any two distinct notes have a          *)
(* frequency ratio max / min of at least 1.1.                              *)
C11_NotesApart ==
  NotesExtracted =>
    \A k \in FrameNumbers :
      \A i \in 1..Len(NotesOf(k)) : \A j \in 1..Len(NotesOf(k)) :
        i # j => Apart(NotesOf(k)[i].frequency, NotesOf(k)[j].frequency)

(* Two surviving peaks closer than a ratio of 1.1 (1700 / 1550) become one *)
(* note although maxNotes would admit both.                                *)
C11_Witness ==
  /\ NotesExtracted
  /\ returned.maxNotes = 5
  /\ \E k \in FrameNumbers :
       /\ {c.frequency : c \in Elements(SurvivingPeaks(k))} = {1550, 1700}
       /\ Len(NotesOf(k)) = 1

(* A candidate that is at a ratio of at least 1.1 from every other         *)
(* candidate of its frame.                                                 *)
Isolated(c, k) ==
  \A d \in Elements(SurvivingPeaks(k)) :
    d.frequency # c.frequency => Apart(c.frequency, d.frequency)

(* C12: a candidate at a ratio of at least 1.1 from every other candidate  *)
(* of its frame is emitted unless the list was cut to maxNotes notes, all  *)
(* of them at least as strong.                                             *)
C12_IsolatedCandidatesKept ==
  NotesExtracted =>
    \A k \in FrameNumbers :
      LET surviving == Elements(SurvivingPeaks(k))
      IN \A c \in surviving :
        (\A d \in surviving : d.frequency # c.frequency => Apart(c.frequency, d.frequency)) =>
          \/ c \in Elements(NotesOf(k))
          \/ /\ Len(NotesOf(k)) = returned.maxNotes
             /\ \A n \in Elements(NotesOf(k)) : n.magnitude >= c.magnitude

(* Two peaks at a ratio of 1.5 are both emitted. *)
C12_Witness ==
  /\ NotesExtracted
  /\ \E k \in FrameNumbers :
       /\ {c.frequency : c \in Elements(SurvivingPeaks(k))} = {300, 450}
       /\ {n.frequency : n \in Elements(NotesOf(k))} = {300, 450}

---------------------------------------------------------------------------
(* Properties of the multi-note confidence, checked under SpecPitch. *)

(* The three components of the confidence of the peak at frequency f in    *)
(* frame k, each with its cap.                                             *)
EnergyComponent(k, f) ==
  Min((Frames[k][BinOf(f)] * 10000) \div SumSeq(Frames[k]), 400)
HarmonicComponent(k, f) ==
  Min((calculateHarmonicStrength(f, Bins, Frames[k]) - 1000) \div 3, 300)
SnrComponent(k, f) ==
  Min(Log10SnrPlusOne(Frames[k][BinOf(f)], NoiseLevel(Frames[k], 9)) \div 3, 300)
ClampedSum(k, f) ==
  Max(0, Min(1000, EnergyComponent(k, f) + HarmonicComponent(k, f) + SnrComponent(k, f)))

(* The frequencies of the peaks of frame k. *)
PeakFrequencies(k) ==
  IF FindIndex(Bins, minFreq) = -1 \/ FindIndex(Bins, maxFreq) = -1 THEN {}
  ELSE {Bins[p.index + 1] :
          p \in Elements(findPeaks(Frames[k], FindIndex(Bins, minFreq),
                                   FindIndex(Bins, maxFreq), minMagnitude))}

(* C13: every emitted note has a confidence c with 0.1 < c <= 1, the sum   *)
(* of the energy (<= 0.4), harmonic (<= 0.3) and SNR (<= 0.3) components   *)
(* clamped to [0, 1]; a peak whose confidence is at most 0.1 is not        *)
(* emitted.                                                                *)
C13_NoteConfidence ==
  NotesExtracted =>
    \A k \in FrameNumbers :
      /\ \A n \in Elements(NotesOf(k)) :
           /\ n.confidence > 100
           /\ n.confidence <= 1000
           /\ n.confidence = ClampedSum(k, n.frequency)
      /\ \A f \in PeakFrequencies(k) :
           ClampedSum(k, f) <= 100 => \A n \in Elements(NotesOf(k)) : n.frequency # f

(* A note whose three components are all below their caps. *)
C13_Witness ==
  /\ NotesExtracted
  /\ \E k \in FrameNumbers : \E n \in Elements(NotesOf(k)) :
       /\ n.confidence < 400
       /\ EnergyComponent(k, n.frequency) < 400
       /\ EnergyComponent(k, n.frequency) > 0
       /\ HarmonicComponent(k, n.frequency) < 300
       /\ SnrComponent(k, n.frequency) < 300
       /\ SnrComponent(k, n.frequency) > 0

---------------------------------------------------------------------------
(* Properties of calculateOverallFrequencySpectrum, checked under          *)
(* SpecPitch.                                                              *)

Aggregated == returned.op = "calculateOverallFrequencySpectrum"
RECURSIVE ExactBinSum(_, _)
ExactBinSum(k, bin) ==
  IF k = 0 THEN 0 ELSE Frames[k][bin] + ExactBinSum(k - 1, bin)
EqualFramesGiven == \A k \in FrameNumbers : Frames[k] = Frames[1]

(* The result for a bin is the sum over the frames divided by the number   *)
(* of frames, up to the rounding of the additions and of the division (a   *)
(* relative error of 2^-SignificandBits each, half a unit for a quotient   *)
(* below 2^SignificandBits units).                                         *)
IsRoundedMean(result, bin) ==
  Abs(Len(Frames) * result - ExactBinSum(Len(Frames), bin)) * 2^SignificandBits
    <= (Len(Frames) + 1) * ExactBinSum(Len(Frames), bin)
         + Len(Frames) * 2^(SignificandBits - 1)

---------------------------------------------------------------------------
(* Properties of the analyzer as a whole, checked under Spec. *)

(* C15: analyzeSpectrum returns what a fresh analyzer of the same fftSize  *)
(* and hopSize returns for the same buffer, whatever was analyzed before,  *)
(* and the three downstream operations return the value determined by the  *)
(* spectrogram (and maxNotes) alone.                                       *)
C15_ResultsDependOnInputsOnly ==
  /\ Analyzed =>
       returned.value = analyzeSpectrum(audioBuffer, fftSize, hopSize,
                                        CachedSampleRate(audioBuffer, 0))
  /\ FundamentalsExtracted =>
       returned.value = extractFundamentalFrequency(spectrogramData)
  /\ NotesExtracted =>
       returned.value = extractMultipleNotes(spectrogramData, returned.maxNotes)
  /\ Aggregated =>
       returned.value = calculateOverallFrequencySpectrum(spectrogramData)

(* A call on an analyzer that has cached another buffer's sample rate. *)
C15_Witness ==
  /\ Analyzed
  /\ cachedBefore # 0
  /\ cachedBefore # audioBuffer.sampleRate
  /\ Len(returned.value.times) >= 2
  /\ returned.value.frequencies[Len(returned.value.frequencies)] > 0

---------------------------------------------------------------------------
(* Properties of the shape of the results, checked under SpecPitch. *)

(* C16: for a spectrogram of F frames extractFundamentalFrequency returns  *)
(* times, frequencies and confidences of length F each, and                *)
(* extractMultipleNotes returns F note frames, the i-th with the time of   *)
(* the i-th frame; all fields of both results are present.                 *)
C16_OneEntryPerFrame ==
  /\ FundamentalsExtracted =>
       /\ DOMAIN returned.value = {"times", "frequencies", "confidences"}
       /\ returned.value.times = spectrogramData.times
       /\ Len(returned.value.times) = Len(Frames)
       /\ Len(returned.value.frequencies) = Len(Frames)
       /\ Len(returned.value.confidences) = Len(Frames)
  /\ NotesExtracted =>
       /\ DOMAIN returned.value = {"times", "noteFrames"}
       /\ returned.value.times = spectrogramData.times
       /\ Len(returned.value.noteFrames) = Len(Frames)
       /\ \A k \in FrameNumbers :
            /\ DOMAIN returned.value.noteFrames[k] = {"time", "notes"}
            /\ returned.value.noteFrames[k].time = spectrogramData.times[k]

(* Three frames at different times, the middle one without a note. *)
C16_Witness ==
  /\ NotesExtracted
  /\ Len(Frames) = 3
  /\ NotesOf(1) # <<>> /\ NotesOf(2) = <<>> /\ NotesOf(3) # <<>>
  /\ returned.value.noteFrames[3].time.num > returned.value.noteFrames[2].time.num
  /\ returned.value.noteFrames[2].time.num > returned.value.noteFrames[1].time.num

---------------------------------------------------------------------------
(* Properties of what the operations change, checked under SpecPitch. *)

DownstreamOperations ==
  {"extractFundamentalFrequency", "extractMultipleNotes",
   "calculateOverallFrequencySpectrum"}

(* C17: a step of one of the three downstream operations leaves the        *)
(* spectrogram (frequencies, times, every frame and the order of its       *)
(* elements) and the analyzer's fields as they are; no step changes        *)
(* fftSize or hopSize; and sampleRate changes only in a step of            *)
(* analyzeSpectrum, to the rate of its buffer.                             *)
C17_OnlySampleRateChanges ==
  [][/\ fftSize' = fftSize
     /\ hopSize' = hopSize
     /\ (returned' # returned /\ returned'.op \in DownstreamOperations) =>
          /\ spectrogramData' = spectrogramData
          /\ sampleRate' = sampleRate
     /\ sampleRate' # sampleRate =>
          /\ audioBuffer'.sampleRate = sampleRate'
          /\ hung' \/ returned'.op = "analyzeSpectrum"]_vars

(* extractFundamentalFrequency has found a pitch, and so sorted a copy of  *)
(* the magnitudes, in a frame that is not in descending order.             *)
C17_Witness ==
  /\ FundamentalsExtracted
  /\ Len(Frames) >= 1
  /\ returned.value.frequencies[1] # 0
  /\ Frames[1] # SortDescending(Frames[1])
  /\ fftSize = 128 /\ hopSize = 32 /\ sampleRate = 0

---------------------------------------------------------------------------
(* Properties of frequencyToNote, checked under SpecNotes. *)

NoteReturned == returned.op = "frequencyToNote"
NoteNames == {NOTE_NAMES[i] : i \in 1..Len(NOTE_NAMES)}

(* C18: for a frequency > 0 with nearest MIDI number m the note has the    *)
(* name NOTE_NAMES[(m - 12) mod 12], one of the twelve names, the octave   *)
(* floor((m - 12) / 12), the frequency of MIDI note m and cents within     *)
(* [-50, 50]; for a frequency <= 0 the name is '-'.                        *)
C18_NoteOfNearestMidiNumber ==
  NoteReturned =>
    LET frequency == observed[1]
        m == RoundedMidiNumber(frequency)
    IN IF frequency <= 0 THEN returned.value.name = "-"
       ELSE /\ returned.value.name \in NoteNames
            /\ returned.value.name = NOTE_NAMES[((m - 12) % 12) + 1]
            /\ returned.value.octave = (m - 12) \div 12
            /\ returned.value.frequency = midiNumberToFrequency(m)
            /\ returned.value.cents >= -50
            /\ returned.value.cents <= 50

---------------------------------------------------------------------------
(* Harmonic strength and peaks, checked under SpecPitch. *)

Harmonics == 2..5
NearestBins(target) ==
  {i \in 1..Len(Bins) :
     \A j \in 1..Len(Bins) : Abs(Bins[i] - target) <= Abs(Bins[j] - target)}
(* The first of the nearest bins: nearer than every bin before it and at   *)
(* least as near as every bin after it (its two neighbours first).         *)
NearestBin(target) ==
  CHOOSE i \in 1..Len(Bins) :
    /\ i > 1 => Abs(Bins[i - 1] - target) > Abs(Bins[i] - target)
    /\ i < Len(Bins) => Abs(Bins[i + 1] - target) >= Abs(Bins[i] - target)
    /\ \A j \in 1..Len(Bins) :
         IF j < i THEN Abs(Bins[j] - target) > Abs(Bins[i] - target)
         ELSE Abs(Bins[j] - target) >= Abs(Bins[i] - target)
WithinTolerance(target) == Abs(Bins[NearestBin(target)] - target) < 20
ShareOfHarmonic(k, f, h) ==
  LET c == NearestBin(h * f)
  IN IF Abs(Bins[c] - h * f) < 20 THEN Frames[k][c] \div h ELSE 0

(* C19: for every candidate frequency f of a frame, calculateHarmonicStrength *)
(* is 1 plus, for each h in 2 .. 5, magnitude[c] / h with c the bin nearest *)
(* h * f (the lowest index among equally near bins), the term counted      *)
(* exactly when |frequencies[c] - h * f| < 20; the result is at least 1.   *)
C19_HarmonicStrength ==
  FundamentalsExtracted =>
    \A k \in FrameNumbers : \A i \in LoudBins(k) :
      LET strength == calculateHarmonicStrength(Bins[i], Bins, Frames[k])
      IN /\ strength = 1000 + ShareOfHarmonic(k, Bins[i], 2) + ShareOfHarmonic(k, Bins[i], 3)
                            + ShareOfHarmonic(k, Bins[i], 4) + ShareOfHarmonic(k, Bins[i], 5)
         /\ strength >= 1000

(* A frame with a candidate that has two bins equally near one harmonic,   *)
(* of different magnitudes and within 20 Hz, and with a candidate whose    *)
(* harmonic has its nearest bin, of magnitude above 0, 20 Hz away.         *)
C19_Witness ==
  /\ FundamentalsExtracted
  /\ \E k \in FrameNumbers :
       /\ \E i \in LoudBins(k) : \E h \in Harmonics :
            /\ Cardinality(NearestBins(h * Bins[i])) = 2
            /\ \E a, b \in NearestBins(h * Bins[i]) : Frames[k][a] # Frames[k][b]
            /\ WithinTolerance(h * Bins[i])
            /\ ShareOfHarmonic(k, Bins[i], h) > 0
            /\ calculateHarmonicStrength(Bins[i], Bins, Frames[k]) > 1000
       /\ \E i \in LoudBins(k) : \E g \in Harmonics :
            /\ Abs(Bins[NearestBin(g * Bins[i])] - g * Bins[i]) = 20
            /\ Frames[k][NearestBin(g * Bins[i])] > 0
            /\ ShareOfHarmonic(k, Bins[i], g) = 0


(* Indices count from 0 as in the code; a bin outside the frame counts 0.  *)
BandStart == FindIndex(Bins, 80)
BandEnd == FindIndex(Bins, 2000)
Admissible(i) == i >= BandStart + 1 /\ i < BandEnd - 1
MagnitudeOrZero(k, i) == IF i >= 0 /\ i < Len(Frames[k]) THEN Frames[k][i + 1] ELSE 0
LocalMaximum(k, i) ==
  /\ MagnitudeOrZero(k, i) > MagnitudeOrZero(k, i - 1)
  /\ MagnitudeOrZero(k, i) > MagnitudeOrZero(k, i + 1)
  /\ MagnitudeOrZero(k, i) > MagnitudeOrZero(k, i - 2)
  /\ MagnitudeOrZero(k, i) > MagnitudeOrZero(k, i + 2)
  /\ MagnitudeOrZero(k, i) > 50
PeakIndices(k) ==
  {p.index : p \in Elements(findPeaks(Frames[k], BandStart, BandEnd, minMagnitude))}

(* C20: findPeaks reports index i as a peak exactly when i is an admissible *)
(* in-band index (from the second of the band to the last but one) and     *)
(* magnitude[i] is strictly greater than the magnitudes                    *)
(* at i - 1, i + 1, i - 2 and i + 2 (a missing one counting as 0) and than *)
(* 0.05; any two peaks of a frame are at least 3 bins apart, and every     *)
(* emitted note lies on a peak.                                            *)
C20_FivePointPeaks ==
  (NotesExtracted /\ BandStart # -1 /\ BandEnd # -1) =>
    \A k \in FrameNumbers :
      LET peaks == PeakIndices(k)
          first == BandStart + 1
          last == BandEnd - 2
      IN /\ peaks = {i \in first..last : LocalMaximum(k, i)}
         /\ \A i, j \in peaks : i # j => Abs(i - j) >= 3
         /\ \A note \in Elements(NotesOf(k)) : (BinOf(note.frequency) - 1) \in peaks

(* Two peaks exactly 3 bins apart, both emitted, the lower one without a   *)
(* bin two below it; and a bin above its direct neighbours and 0.05 that   *)
(* is no peak because of the bin two below.                                *)
C20_Witness ==
  /\ NotesExtracted
  /\ BandStart = 0 /\ BandEnd # -1
  /\ \E k \in FrameNumbers :
       /\ 1 \in PeakIndices(k)
       /\ \E i, j \in PeakIndices(k) : j = i + 3
       /\ Len(NotesOf(k)) >= 2
       /\ \E i \in 0..(Len(Bins) - 1) :
            /\ Admissible(i)
            /\ i \notin PeakIndices(k)
            /\ Frames[k][i + 1] > 50
            /\ Frames[k][i + 1] > Frames[k][i] /\ Frames[k][i + 1] > Frames[k][i + 2]
            /\ Frames[k][i + 1] <= Frames[k][i - 1]

(* A bin above its four neighbours that is no peak because it does not    *)
(* exceed 0.05, beside a peak; and a bin above its four neighbours and     *)
(* 0.05 that is no peak because it is the first of the band.               *)
C20_FloorReached ==
  /\ NotesExtracted
  /\ BandStart # -1 /\ BandEnd # -1
  /\ \E k \in FrameNumbers :
       /\ PeakIndices(k) # {}
       /\ \E i \in 2..(Len(Bins) - 3) :
            /\ Admissible(i) /\ i \notin PeakIndices(k)
            /\ Frames[k][i + 1] > 0 /\ Frames[k][i + 1] <= 50
            /\ \A d \in {-2, -1, 1, 2} : Frames[k][i + 1] > Frames[k][i + 1 + d]
C20_BandEdgeReached ==
  /\ NotesExtracted
  /\ BandStart > 1 /\ BandEnd # -1
  /\ \E k \in FrameNumbers :
       /\ BandStart \notin PeakIndices(k)
       /\ Frames[k][BandStart + 1] > 50
       /\ \A d \in {-2, -1, 1, 2} : Frames[k][BandStart + 1] > Frames[k][BandStart + 1 + d]


(* C21 as stated: no peak is reported at startIdx, startIdx + 1,           *)
(* endIdx - 2 or endIdx - 1.                                               *)
C21_TwoSamplesExcluded ==
  (NotesExtracted /\ BandStart # -1 /\ BandEnd # -1) =>
    \A k \in FrameNumbers :
      PeakIndices(k) \cap {BandStart, BandStart + 1, BandEnd - 2, BandEnd - 1} = {}

(* C21: peak picking excludes the one sample nearest each band edge: with  *)
(* the band at indices startIdx .. endIdx - 1 every peak, and so every     *)
(* emitted note, lies in startIdx + 1 .. endIdx - 2; no peak is reported   *)
(* at startIdx or endIdx - 1.                                              *)
C21_OneSampleExcluded ==
  (NotesExtracted /\ BandStart # -1 /\ BandEnd # -1) =>
    \A k \in FrameNumbers :
      LET peaks == PeakIndices(k)
          first == BandStart
          last == BandEnd - 1
      IN /\ first \notin peaks
         /\ last \notin peaks
         /\ \A i \in peaks : i > first /\ i < last
         /\ \A note \in Elements(NotesOf(k)) :
              BinOf(note.frequency) - 1 > first /\ BinOf(note.frequency) - 1 < last

(* The first bin of the band stands above its four neighbours and 0.05 and *)
(* is not reported, while the last bin but one of the band is reported and *)
(* emitted as a note.                                                      *)
C21_Witness ==
  /\ NotesExtracted
  /\ BandStart > 1 /\ BandEnd # -1
  /\ \E k \in FrameNumbers :
       /\ Frames[k][BandStart + 1] > 50
       /\ \A d \in {-2, -1, 1, 2} : Frames[k][BandStart + 1] > Frames[k][BandStart + 1 + d]
       /\ BandStart \notin PeakIndices(k)
       /\ (BandEnd - 2) \in PeakIndices(k)
       /\ \E note \in Elements(NotesOf(k)) : note.frequency = Bins[BandEnd - 1]


(* The mean of the lowest-ranked magnitudes of frame k from rank           *)
(* floor(n * tenths / 10) on, in the descending order.                     *)
LowestRanked(k, tenths) ==
  Slice(SortDescending(Frames[k]), (Len(Frames[k]) * tenths) \div 10, Len(Frames[k]))
MeanOfLowest(k, tenths) ==
  SumSeq(LowestRanked(k, tenths)) \div Len(LowestRanked(k, tenths))

(* C22: the noise level of the SNR sub-score is the arithmetic mean of the *)
(* lowest-ranked magnitudes of the frame: the sum of the bottom 20%        *)
(* (single pitch) or bottom 10% (multi pitch) by rank divided by the       *)
(* number of magnitudes summed.                                            *)
C22_NoiseLevelIsMean ==
  \A k \in FrameNumbers :
    /\ FundamentalsExtracted => NoiseLevel(Frames[k], 8) = MeanOfLowest(k, 8)
    /\ NotesExtracted => NoiseLevel(Frames[k], 9) = MeanOfLowest(k, 9)


(* The candidates of frame k in the order in which overlap suppression     *)
(* scans them; the positions that start a group (no earlier group starter  *)
(* is closer than a ratio of 1.1); and the group of a starter: itself and  *)
(* the later candidates closer than 1.1 that no earlier starter took.      *)
ScannedNotes(k) == SortByMagnitude(SurvivingPeaks(k))
RECURSIVE GroupStarters(_, _)
GroupStarters(notes, p) ==
  IF p = 0 THEN {}
  ELSE LET before == GroupStarters(notes, p - 1)
       IN IF \A l \in before : Apart(notes[l].frequency, notes[p].frequency)
          THEN before \cup {p} ELSE before
GroupOf(notes, starters, l) ==
  {l} \cup {q \in (l + 1)..Len(notes) :
              /\ ~Apart(notes[l].frequency, notes[q].frequency)
              /\ \A e \in starters : e < l => Apart(notes[e].frequency, notes[q].frequency)}

(* C23: candidates are scanned in descending order of boosted magnitude,   *)
(* and the n-th emitted note is the first-scanned member of the n-th       *)
(* merged group, which has the largest boosted magnitude of its group; no  *)
(* later member replaces it.                                               *)
C23_FirstScannedRepresents ==
  NotesExtracted =>
    \A k \in FrameNumbers :
      LET scanned == ScannedNotes(k)
          starters == GroupStarters(scanned, Len(scanned))
      IN /\ \A a, b \in 1..Len(scanned) :
              a < b => scanned[a].magnitude >= scanned[b].magnitude
         /\ Len(NotesOf(k)) = Min(Cardinality(starters), returned.maxNotes)
         /\ \A n \in 1..Len(NotesOf(k)) :
              \E l \in starters :
                /\ Cardinality({e \in starters : e < l}) = n - 1
                /\ NotesOf(k)[n] = scanned[l]
                /\ \A q \in GroupOf(scanned, starters, l) :
                     scanned[q].magnitude <= scanned[l].magnitude

(* An emitted note whose group has a second member of the same boosted     *)
(* magnitude, scanned later, and another emitted note that merged a weaker *)
(* member.                                                                 *)
C23_Witness ==
  /\ NotesExtracted
  /\ \E k \in FrameNumbers :
       LET scanned == ScannedNotes(k)
           starters == GroupStarters(scanned, Len(scanned))
       IN /\ \E l \in starters : \E q \in GroupOf(scanned, starters, l) :
               /\ q > l
               /\ scanned[q].magnitude = scanned[l].magnitude
               /\ scanned[l] \in Elements(NotesOf(k))
               /\ scanned[q] \notin Elements(NotesOf(k))
          /\ \E l \in starters : \E q \in GroupOf(scanned, starters, l) :
               /\ q > l
               /\ scanned[q].magnitude < scanned[l].magnitude
               /\ scanned[l] \in Elements(NotesOf(k))
               /\ scanned[q] \notin Elements(NotesOf(k))

---------------------------------------------------------------------------
(* Termination of analyzeSpectrum, checked under Spec. *)

(* C24: analyzeSpectrum runs to completion for every power-of-two          *)
(* transform size and every finite signal, with the hop size omitted or    *)
(* any non-negative integer: the framing loop advances by a positive       *)
(* amount and no call is left looping.                                     *)
C24_RunsToCompletion ==
  /\ ~hung
  /\ audioBuffer # NoBuffer /\ FrameFits(0, fftSize, Len(audioBuffer.channelData))
       => hopSize > 0

---------------------------------------------------------------------------
(* The band of the emitted frequencies, checked under SpecPitch. *)

BinCentres == {Bins[i] : i \in 1..Len(Bins)}
BinCentreInBand(f) == f \in BinCentres /\ f >= 80 /\ f < 2000

(* C25: every nonzero frequency of a fundamental track and every frequency *)
(* of a detected note is the centre of one of the spectrogram's bins and   *)
(* satisfies 80 <= f < 2000.                                               *)
C25_EmittedInBand ==
  /\ FundamentalsExtracted =>
       \A k \in FrameNumbers :
         returned.value.frequencies[k] # 0 => BinCentreInBand(returned.value.frequencies[k])
  /\ NotesExtracted =>
       \A k \in FrameNumbers :
         \A note \in Elements(NotesOf(k)) : BinCentreInBand(note.frequency)

(* A fundamental is emitted for a frame whose loudest bin, louder than     *)
(* 0.1, lies at or above 2000 Hz.                                          *)
C25_Witness ==
  /\ FundamentalsExtracted
  /\ \E k \in FrameNumbers :
       /\ returned.value.frequencies[k] # 0
       /\ \E i \in 1..Len(Bins) :
            /\ Bins[i] >= 2000
            /\ Frames[k][i] > 100
            /\ \A j \in 1..Len(Bins) : Frames[k][i] >= Frames[k][j]
            /\ Frames[k][i] > Frames[k][BinOf(returned.value.frequencies[k])]

---------------------------------------------------------------------------
(* Properties of App and useAudioProcessor, checked under SpecApp and      *)
(* SpecAppFair.                                                            *)

ModeData ==
  IF app.analysisMode = "single" THEN app.fundamentalData ELSE app.multipleNotesData
ChartVisible == app.spectrogramData # null /\ ModeData # null
CallNumbers == 1..Len(calls)
InFlight == {c \in CallNumbers : calls[c].at \in {"reading", "decoding", "closing"}}

(* C26: once the mode has been switched while a file is loaded and         *)
(* analysed (audioData and spectrogramData are set, the data of the mode   *)
(* is not), the analysis eventually stores the data of the mode and the    *)
(* chart becomes visible.                                                  *)
C26_ModeChangeReanalyses ==
  (processor.audioData # null /\ app.spectrogramData # null /\ ModeData = null)
    ~> ChartVisible

(* C27: a stored spectrogram and stored pitch data were computed from the  *)
(* current audioData, and pitch data are of the current mode.              *)
C27_ResultsOfCurrentAudio ==
  /\ app.spectrogramData # null => app.spectrogramData = processor.audioData
  /\ app.fundamentalData # null =>
       app.fundamentalData = processor.audioData /\ app.analysisMode = "single"
  /\ app.multipleNotesData # null =>
       app.multipleNotesData = processor.audioData /\ app.analysisMode = "multiple"

(* C28: at most one analysis callback is pending and isAnalyzing is TRUE   *)
(* exactly while one is pending; a callback is scheduled only when         *)
(* isAnalyzing is FALSE and no result is stored, and isAnalyzing is FALSE  *)
(* after a callback has run, whether it stored its results or threw.       *)
C28_OneCallbackPending ==
  /\ [](Len(timers) <= 1 /\ (app.isAnalyzing <=> Len(timers) = 1))
  /\ [][/\ Len(timers') > Len(timers) =>
            /\ ~app.isAnalyzing
            /\ app.spectrogramData = null
            /\ app.fundamentalData = null
            /\ app.multipleNotesData = null
            /\ app'.isAnalyzing
        /\ Len(timers') < Len(timers) => ~app'.isAnalyzing]_vars

(* A callback is pending for the second file after the first call and its  *)
(* analysis have completed.                                                *)
C28_Witness ==
  /\ Len(calls) = 2
  /\ calls[1].at = "done"
  /\ Len(timers) = 1
  /\ timers[1].audioData = 2
  /\ app.isAnalyzing

C30_LatestFileWins ==
  (calls # <<>> /\ \A c \in CallNumbers : calls[c].at = "done") =>
    /\ processor.audioData # null
    /\ calls[processor.audioData].file = calls[Len(calls)].file
    /\ calls[processor.audioData].file = app.audioFile


=============================================================================
